---- MODULE Spec2Model ----
(***************************************************************************)
(* Model of src/async-tools-agent/tools/async_tools.py:                    *)
(* fetch_multiple_urls, its helper coroutine fetch_one, and the asyncio    *)
(* event loop steps between their suspension points.                       *)
(*                                                                         *)
(* Text (str) is a sequence of one-character strings, so that slicing,     *)
(* len() and concatenation are computed as Python computes them.           *)
(* An optional value (X or None) is <<>> for None and <<x>> for x, so that *)
(* None differs from the empty string and from 0.                          *)
(***************************************************************************)
EXTENDS Integers, Sequences, FiniteSets

(* ------------------------------ bounds -------------------------------- *)

\* Longest url list of a batch call.
MaxUrls == 3

\* How many units over the preview limit the longest response body is.
MaxOver == 1

\* Longest url list where the clock of the timeouts, or a second call, is followed.
MaxSmallUrls == 2

\* How many calls of fetch_multiple_urls follow each other.
MaxCalls == 2

\* Largest numerator of the operands of divide.
MaxNum == 3

\* The longest list of devices or interfaces the Metrics API answers with.
MaxItems == 2

\* The longest expression given to calculate.
MaxExpr == 3

(* ------------------------- program constants -------------------------- *)

\* content[:200], len(content) > 200
PreviewLimit == 200

\* aiohttp.ClientTimeout(total=10), in seconds
RequestTimeout == 10

(* ------------------------------- values ------------------------------- *)

None == <<>>

Some(x) == <<x>>

\* "..."
Ellipsis == <<".", ".", ".">>

\* "Request timed out after 10 seconds"
TimeoutMessage == <<"R","e","q","u","e","s","t"," ","t","i","m","e","d"," ","o","u","t"," ","a","f","t","e","r"," ","1","0"," ","s","e","c","o","n","d","s">>

\* the ": " of f"{type(e).__name__}: {str(e)}"
ColonSpace == <<":", " ">>

\* The url strings the caller may pass.
Urls == { <<"a">>, <<"b">> }

\* All url lists of at most n entries (duplicates allowed).
UrlLists(n) == UNION { [1..k -> Urls] : k \in 0..n }

\* The response body of n units the remote end sends.
Body(n) == [i \in 1..n |-> <<"x", "y", "z">>[((i - 1) % 3) + 1]]

(* ----------------------- exceptions of the fetch ---------------------- *)

\* type(e).__name__ of each exception class the transport raises.
TypeName(cls) ==
    CASE cls = "TimeoutError" -> <<"T","i","m","e","o","u","t","E","r","r","o","r">>
      [] cls = "ServerTimeoutError" -> <<"S","e","r","v","e","r","T","i","m","e","o","u","t","E","r","r","o","r">>
      [] cls = "ClientConnectorError" -> <<"C","l","i","e","n","t","C","o","n","n","e","c","t","o","r","E","r","r","o","r">>
      [] cls = "InvalidURL" -> <<"I","n","v","a","l","i","d","U","R","L">>
      [] cls = "UnicodeDecodeError" -> <<"U","n","i","c","o","d","e","D","e","c","o","d","e","E","r","r","o","r">>
      [] cls = "ClientPayloadError" -> <<"C","l","i","e","n","t","P","a","y","l","o","a","d","E","r","r","o","r">>

\* The classes an exception of class cls is an instance of (its MRO).
Mro(cls) ==
    CASE cls = "TimeoutError" ->
            {"TimeoutError", "Exception", "BaseException"}
      [] cls = "ServerTimeoutError" ->
            {"ServerTimeoutError", "ServerConnectionError", "ClientConnectionError",
             "ClientError", "TimeoutError", "Exception", "BaseException"}
      [] cls = "ClientConnectorError" ->
            {"ClientConnectorError", "ClientOSError", "ClientConnectionError",
             "ClientError", "OSError", "Exception", "BaseException"}
      [] cls = "InvalidURL" ->
            {"InvalidURL", "ClientError", "ValueError", "Exception", "BaseException"}
      [] cls = "UnicodeDecodeError" ->
            {"UnicodeDecodeError", "UnicodeError", "ValueError", "Exception", "BaseException"}
      [] cls = "ClientPayloadError" ->
            {"ClientPayloadError", "ClientError", "Exception", "BaseException"}
      [] cls = "SyntaxError" ->
            {"SyntaxError", "Exception", "BaseException"}
      [] cls = "ZeroDivisionError" ->
            {"ZeroDivisionError", "ArithmeticError", "Exception", "BaseException"}
      [] cls = "TypeError" ->
            {"TypeError", "Exception", "BaseException"}

IsInstance(e, base) == base \in Mro(e.cls)

Exc(cls, msg) == [cls |-> cls, msg |-> msg]

\* str(e)
Str(e) == e.msg

\* What session.get(url, timeout=ClientTimeout(total=10)) can raise.
GetErrors(url) ==
    { Exc("TimeoutError", <<>>),
      Exc("ServerTimeoutError", <<"t","o">>),
      Exc("ClientConnectorError", <<"r","e","f","u","s","e","d">>),
      Exc("InvalidURL", url) }

\* What response.text() can raise once the headers are in.
TextErrors ==
    { Exc("TimeoutError", <<>>),
      Exc("UnicodeDecodeError", <<"b","a","d">>),
      Exc("ClientPayloadError", <<>>) }

\* The status codes the remote end may answer with.
Statuses == {200, 404, 500}

\* The body lengths the remote end may answer with.
BodyLens == {0, 2} \cup { PreviewLimit + d : d \in 0..MaxOver }

(* -------------------------------- state ------------------------------- *)

VARIABLES
    pc,        \* where fetch_multiple_urls is: "idle", "gather", "joined", "returned", "raised"
    urls,      \* the argument of the call, as the sequence its iteration yields
    session,   \* the aiohttp.ClientSession of the call: [id, state], state "none", "open", "closed"
    tasks,     \* one record per fetch_one coroutine handed to asyncio.gather
    order,     \* the indices of the finished tasks, in completion order
    results,   \* the list asyncio.gather returned (None before)
    report,    \* the dictionary the call returned (None before)
    raised,    \* the exception the call raised (None if none)
    now,       \* the clock time.time() reads, in hundredths of a second
    start_time, \* the local start_time of the call (None before)
    clock,     \* the event loop's clock the request timeouts run on, in seconds
    calls,     \* how many times fetch_multiple_urls has been called
    argkind,   \* the type of the argument of the current call ("none" before)
    tool       \* the last call of a synchronous tool and its outcome (None before)

vars == <<pc, urls, session, tasks, order, results, report, raised, now, start_time,
          clock, calls, argkind, tool>>

\* The clock is a logical one: it advances by one unit with every step of
\* the event loop, so that a later step reads a later time.
Tick == now' = now + 1

\* The result slot of a task: still pending, returned a value, or raised.
Pending == [kind |-> "pending", value |-> None]

Return(v) == [kind |-> "return", value |-> v]

Raise(e) == [kind |-> "raise", value |-> e]

\* What the remote end did to a fetch: it answered with a status and a body
\* that response.text() decoded, or the transport raised e while the
\* coroutine was at stage ("get": no response yet, "text": headers are in).
Responded(status, content) == [kind |-> "response", status |-> status, content |-> content]

Failed(e, stage) == [kind |-> "raise", exc |-> e, stage |-> stage]

\* A coroutine object fetch_one(session, url), created and not yet run.
\* session (the id of the session) and url are the arguments bound at
\* creation; pc is the coroutine's position ("scheduled", "get", "text",
\* "done"); deadline is when the total timeout of its request expires;
\* response is the response object of session.get; answer records what the
\* remote end did; result is the task's result slot.
NewTask(sess, url) ==
    [session |-> sess, url |-> url, pc |-> "scheduled", deadline |-> None,
     response |-> None, answer |-> None, result |-> Pending]

Indices == 1..Len(tasks)

(* ------------------------------ fetch_one ----------------------------- *)

\* Variant: the comparison is >= instead of >.
PreviewAtLimit(content) ==
    IF Len(content) >= PreviewLimit
    THEN SubSeq(content, 1, PreviewLimit) \o Ellipsis
    ELSE content

\* content[:200] + "..." if len(content) > 200 else content
Preview(content) ==
    IF Len(content) > PreviewLimit
    THEN SubSeq(content, 1, PreviewLimit) \o Ellipsis
    ELSE content

\* Variant: an empty body gives no preview (content[:200] or None).
SuccessOutcomeNoEmptyPreview(url, status, content) ==
    [url |-> url,
     status |-> Some(status),
     success |-> TRUE,
     content_length |-> Len(content),
     preview |-> IF content = <<>> THEN None ELSE Some(Preview(content)),
     error |-> None]

\* Variant: only a status below 400 counts as success (response.ok).
SuccessOutcomeOkOnly(url, status, content) ==
    [url |-> url,
     status |-> Some(status),
     success |-> status < 400,
     content_length |-> Len(content),
     preview |-> Some(Preview(content)),
     error |-> None]

\* The dictionary of the try body, once response.text() has returned.
SuccessOutcome(url, status, content) ==
    [url |-> url,
     status |-> Some(status),
     success |-> TRUE,
     content_length |-> Len(content),
     preview |-> Some(Preview(content)),
     error |-> None]

\* Variant: the timeout's dictionary names only what went wrong.
TimeoutOutcomeShort(url) ==
    [url |-> url,
     success |-> FALSE,
     error |-> Some(TimeoutMessage)]

\* The dictionary of "except asyncio.TimeoutError".
TimeoutOutcome(url) ==
    [url |-> url,
     status |-> None,
     success |-> FALSE,
     content_length |-> 0,
     preview |-> None,
     error |-> Some(TimeoutMessage)]

\* Variant: the message alone, without the class name (str(e)).
FormatErrorMessageOnly(e) == Str(e)

\* f"{type(e).__name__}: {str(e)}"
FormatError(e) == TypeName(e.cls) \o ColonSpace \o Str(e)

\* The dictionary of "except Exception as e".
ErrorOutcome(url, e) ==
    [url |-> url,
     status |-> None,
     success |-> FALSE,
     content_length |-> 0,
     preview |-> None,
     error |-> Some(FormatError(e))]

\* The class the first except clause catches.
TimeoutClause == "TimeoutError"

\* The class the second except clause catches.
GenericClause == "Exception"

\* Variant: the except clauses in the other order, "except Exception" first.
HandleGenericFirst(url, e) ==
    IF IsInstance(e, GenericClause) THEN Return(ErrorOutcome(url, e))
    ELSE IF IsInstance(e, TimeoutClause) THEN Return(TimeoutOutcome(url))
    ELSE Raise(e)

\* Variant: only the timeout is caught, there is no "except Exception".
HandleTimeoutOnly(url, e) ==
    IF IsInstance(e, TimeoutClause) THEN Return(TimeoutOutcome(url))
    ELSE Raise(e)

\* The except clauses of fetch_one, tried in order, for an exception raised
\* inside the try block: what the coroutine ends with.
Handle(url, e) ==
    IF IsInstance(e, TimeoutClause) THEN Return(TimeoutOutcome(url))
    ELSE IF IsInstance(e, GenericClause) THEN Return(ErrorOutcome(url, e))
    ELSE Raise(e)

\* Variant: the fetches are awaited one after the other; a fetch starts when
\* the ones before it are done.
FetchStartSequential(i) ==
    /\ i \in Indices
    /\ tasks[i].pc = "scheduled"
    /\ \A j \in 1..(i - 1) : tasks[j].pc = "done"
    /\ tasks' = [tasks EXCEPT ![i].pc = "get", ![i].deadline = Some(clock + RequestTimeout)]
    /\ Tick
    /\ UNCHANGED <<pc, urls, session, order, results, report, raised, start_time, clock, calls, argkind, tool>>

\* The event loop runs task i up to its first suspension, inside session.get:
\* the request is sent and its total timeout starts to run. The ready queue
\* is first-in first-out: the tasks start in the order gather made them.
FetchStart(i) ==
    /\ i \in Indices
    /\ tasks[i].pc = "scheduled"
    /\ \A j \in 1..(i - 1) : tasks[j].pc # "scheduled"
    /\ tasks' = [tasks EXCEPT ![i].pc = "get", ![i].deadline = Some(clock + RequestTimeout)]
    /\ Tick
    /\ UNCHANGED <<pc, urls, session, order, results, report, raised, start_time, clock, calls, argkind, tool>>

\* session.get returns the response (status line and headers are in);
\* the coroutine goes on to await response.text().
GetResponse(i, status) ==
    /\ i \in Indices
    /\ tasks[i].pc = "get"
    /\ tasks' = [tasks EXCEPT ![i].pc = "text", ![i].response = Some(status)]
    /\ Tick
    /\ UNCHANGED <<pc, urls, session, order, results, report, raised, start_time, clock, calls, argkind, tool>>

\* Variant: a task that ends in a failure cancels the siblings still running
\* (the behaviour of a task group, not of gather).
FinishCancelSiblings(i, a, r) ==
    LET failure == r.kind = "raise" \/ ~r.value.success
        cancelled == [cls |-> "CancelledError", msg |-> <<>>]
    IN  /\ tasks' = [j \in DOMAIN tasks |->
                        IF j = i
                        THEN [tasks[j] EXCEPT !.pc = "done", !.response = None,
                                              !.answer = Some(a), !.result = r]
                        ELSE IF failure /\ tasks[j].pc # "done"
                        THEN [tasks[j] EXCEPT !.pc = "done", !.response = None,
                                              !.result = Raise(cancelled)]
                        ELSE tasks[j]]
        /\ order' = Append(order, i)

\* Task i ends with result r after the remote end did a: the "async with"
\* of session.get releases the response, the task is done and gather's
\* done-callback counts it. No other task is touched.
Finish(i, a, r) ==
    /\ tasks' = [tasks EXCEPT ![i].pc = "done", ![i].response = None,
                              ![i].answer = Some(a), ![i].result = r]
    /\ order' = Append(order, i)

\* session.get raises e (the total timeout, or any other failure).
GetRaise(i, e) ==
    /\ i \in Indices
    /\ tasks[i].pc = "get"
    /\ Finish(i, Failed(e, "get"), Handle(tasks[i].url, e))
    /\ Tick
    /\ UNCHANGED <<pc, urls, session, results, report, raised, start_time, clock, calls, argkind, tool>>

\* response.text() returns the decoded body; the try body returns its dictionary.
TextReturn(i, content) ==
    /\ i \in Indices
    /\ tasks[i].pc = "text"
    /\ Finish(i, Responded(tasks[i].response[1], content),
              Return(SuccessOutcome(tasks[i].url, tasks[i].response[1], content)))
    /\ Tick
    /\ UNCHANGED <<pc, urls, session, results, report, raised, start_time, clock, calls, argkind, tool>>

\* Variant: the failure's dictionary keeps the status of the response whose
\* headers had arrived.
TextRaiseKeepStatus(i, e) ==
    /\ i \in Indices
    /\ tasks[i].pc = "text"
    /\ Finish(i, Failed(e, "text"),
              Return([Handle(tasks[i].url, e).value EXCEPT !.status = tasks[i].response]))
    /\ Tick
    /\ UNCHANGED <<pc, urls, session, results, report, raised, start_time, clock, calls, argkind, tool>>

\* response.text() raises e (the total timeout, a payload or a decoding error).
TextRaise(i, e) ==
    /\ i \in Indices
    /\ tasks[i].pc = "text"
    /\ Finish(i, Failed(e, "text"), Handle(tasks[i].url, e))
    /\ Tick
    /\ UNCHANGED <<pc, urls, session, results, report, raised, start_time, clock, calls, argkind, tool>>

(* -------------------------- fetch_multiple_urls ----------------------- *)

\* The argument of a call: a list of urls, None, or a str (whose iteration
\* yields its one-character substrings).
ListArg(us) == [kind |-> "list", items |-> us]

NoneArg == [kind |-> "NoneType", items |-> <<>>]

StrArg(s) == [kind |-> "str", items |-> [i \in 1..Len(s) |-> <<s[i]>>]]

\* TypeError("'NoneType' object is not iterable")
NotIterable == [cls |-> "TypeError", msg |-> <<"'","N","o","n","e","T","y","p","e","'"," ","o","b","j","e","c","t"," ","i","s"," ","n","o","t"," ","i","t","e","r","a","b","l","e">>]

\* Variant: None is taken for no urls (urls or []).
IterateNoneAsEmpty(arg) == Return(arg.items)

\* "for url in urls": the items, or the TypeError of an argument that cannot
\* be iterated.
Iterate(arg) ==
    IF arg.kind = "NoneType" THEN Raise(NotIterable) ELSE Return(arg.items)

\* Variant: one session for the module, made by the first call and kept.
SharedSession(prev) ==
    IF prev.state = "none" THEN [id |-> prev.id + 1, state |-> "open"] ELSE prev

\* aiohttp.ClientSession(): a new session, open.
NewSession(prev) == [id |-> prev.id + 1, state |-> "open"]

\* Variant: the session is closed by a statement after the await, which an
\* exception skips.
CloseAfterAwaitOnly(kind) == IF kind = "raise" THEN "open" ELSE "closed"

\* The end of the "async with" block, left by the normal way (kind "return")
\* or by an exception (kind "raise"): the session is closed.
AsyncWithExit(kind) == "closed"

\* Variant: a placeholder fetch is made for an empty list.
MakeTasksPlaceholder(sess, us) ==
    IF us = <<>> THEN <<NewTask(sess, <<>>)>>
    ELSE [i \in 1..Len(us) |-> NewTask(sess, us[i])]

\* Variant: one fetch per distinct url (the list is deduplicated first).
MakeTasksDistinct(sess, us) ==
    LET firsts == SelectSeq([i \in 1..Len(us) |-> i],
                            LAMBDA i : \A j \in 1..(i - 1) : us[j] # us[i])
    IN  [k \in 1..Len(firsts) |-> NewTask(sess, us[firsts[k]])]

\* Variant: every coroutine sees the loop variable's last value.
MakeTasksLateBinding(sess, us) == [i \in 1..Len(us) |-> NewTask(sess, us[Len(us)])]

\* tasks = [fetch_one(session, url) for url in urls]
MakeTasks(sess, us) == [i \in 1..Len(us) |-> NewTask(sess, us[i])]

\* The body of fetch_multiple_urls(arg) up to its first suspension, in
\* "await asyncio.gather(*tasks)": the start time is read, a session is
\* entered, one coroutine per url is created and scheduled. Every local of
\* the call is new. If the argument cannot be iterated, the TypeError leaves
\* the "async with" block and the call.
Invoke(arg) ==
    LET sess == NewSession(session)
        it == Iterate(arg)
    IN  /\ start_time' = Some(now)
        /\ Tick
        /\ calls' = calls + 1
        /\ argkind' = arg.kind
        /\ urls' = arg.items
        /\ order' = <<>>
        /\ results' = None
        /\ report' = None
        /\ IF it.kind = "raise"
           THEN /\ pc' = "raised"
                /\ raised' = Some(it.value)
                /\ session' = [sess EXCEPT !.state = AsyncWithExit("raise")]
                /\ tasks' = <<>>
           ELSE /\ pc' = "gather"
                /\ raised' = None
                /\ session' = sess
                /\ tasks' = MakeTasks(sess.id, it.value)
        /\ UNCHANGED <<clock, tool>>

\* The first call, with a list of urls.
Call(us) ==
    /\ pc = "idle"
    /\ Invoke(ListArg(us))

\* A call with any argument, the first one or one that follows a call that
\* has returned or raised.
CallAgain(arg) ==
    /\ pc \in {"idle", "returned", "raised"}
    /\ calls < MaxCalls
    /\ Invoke(arg)

\* The children of gather that ended by raising, in completion order.
Raisers(ts, ord) == SelectSeq(ord, LAMBDA i : ts[i].result.kind = "raise")

\* Variant: the awaiter wakes as soon as any child is done (FIRST_COMPLETED).
GatherFirstCompleted(ts, ord) ==
    \/ ts = <<>>
    \/ \E i \in DOMAIN ts : ts[i].pc = "done"

\* asyncio.gather(*tasks) without return_exceptions wakes its awaiter when
\* every child is done, or as soon as one child raises.
GatherReady(ts, ord) ==
    \/ \A i \in DOMAIN ts : ts[i].pc = "done"
    \/ Raisers(ts, ord) # <<>>

\* Variant: the values in the order the children finished (as_completed).
GatherInCompletionOrder(ts, ord) ==
    IF Raisers(ts, ord) # <<>>
    THEN Raise(ts[Head(Raisers(ts, ord))].result.value)
    ELSE Return([k \in 1..Len(ord) |-> ts[ord[k]].result.value])

\* What the await of gather yields: the first exception raised by a child,
\* else the children's values in the order the children were passed.
Gather(ts, ord) ==
    IF Raisers(ts, ord) # <<>>
    THEN Raise(ts[Head(Raisers(ts, ord))].result.value)
    ELSE Return([i \in DOMAIN ts |-> ts[i].result.value])

\* The await of gather resumes and the "async with" block is left: the
\* session is closed on both the normal and the exceptional exit.
GatherWake ==
    /\ pc = "gather"
    /\ GatherReady(tasks, order)
    /\ LET g == Gather(tasks, order)
       IN  /\ session' = [session EXCEPT !.state = AsyncWithExit(g.kind)]
           /\ IF g.kind = "raise"
              THEN /\ pc' = "raised"
                   /\ raised' = Some(g.value)
                   /\ UNCHANGED results
              ELSE /\ pc' = "joined"
                   /\ results' = Some(g.value)
                   /\ UNCHANGED raised
    /\ Tick
    /\ UNCHANGED <<urls, tasks, order, report, start_time, clock, calls, argkind, tool>>

\* Variant: only a 200 answer is counted (r["status"] == 200).
CountStatus200(rs) == Cardinality({i \in DOMAIN rs : rs[i].status = Some(200)})

\* sum(1 for r in results if r["success"])
RECURSIVE CountSuccess(_)
CountSuccess(rs) ==
    IF rs = <<>> THEN 0
    ELSE (IF Head(rs).success THEN 1 ELSE 0) + CountSuccess(Tail(rs))

\* failed = len(results) - successful
CountFailed(rs, successful) == Len(rs) - successful

\* Variant: the operands of the subtraction are swapped.
ElapsedSwapped(start, end) == start - end

\* total_time = end_time - start_time
Elapsed(start, end) == end - start

\* round(total_time, 2): the clock counts hundredths of a second, which
\* rounding to two decimals keeps.
Round2(t) == t

\* The dictionary the call returns.
MakeReport(us, rs, total_time) ==
    LET successful == CountSuccess(rs)
        failed == CountFailed(rs, successful)
    IN  [results |-> rs,
         total_urls |-> Len(us),
         successful |-> successful,
         failed |-> failed,
         total_time_seconds |-> Round2(total_time)]

\* The statements after the "async with" block, up to the return.
ReturnReport ==
    /\ pc = "joined"
    /\ pc' = "returned"
    /\ LET end_time == now
           total_time == Elapsed(start_time[1], end_time)
       IN  report' = Some(MakeReport(urls, results[1], total_time))
    /\ Tick
    /\ UNCHANGED <<urls, session, tasks, order, results, raised, start_time, clock, calls, argkind, tool>>

(* ------------------- calculator-agent: divide(a, b) ------------------- *)

\* Numbers are fractions n/d in lowest terms, d > 0.
Abs(x) == IF x < 0 THEN -x ELSE x

RECURSIVE Gcd(_, _)
Gcd(x, y) == IF y = 0 THEN x ELSE Gcd(y, x % y)

Frac(n, d) ==
    LET g == Gcd(Abs(n), Abs(d))
        sgn == IF d < 0 THEN -1 ELSE 1
    IN  [n |-> (sgn * n) \div g, d |-> (sgn * d) \div g]

\* The operands a call of divide may get.
Nums == { Frac(n, d) : n \in (-MaxNum)..MaxNum, d \in 1..MaxNum }

\* b == 0
IsZero(b) == b.n = 0

\* a / b: the quotient, or ZeroDivisionError.
TrueDiv(a, b) ==
    IF b.n = 0
    THEN Raise([cls |-> "ZeroDivisionError", msg |-> <<"f","l","o","a","t"," ","d","i","v","i","s","i","o","n"," ","b","y"," ","z","e","r","o">>])
    ELSE Return(Frac(a.n * b.d, a.d * b.n))

\* Variant: no test of b == 0 before the division.
divide_unchecked(a, b) ==
    LET q == TrueDiv(a, b)
    IN  IF q.kind = "raise" THEN q
        ELSE Return([operation |-> "division",
                     operands |-> <<a, b>>,
                     result |-> q.value,
                     expression |-> <<a, "/", b, "=", q.value>>])

\* divide(a, b): what the call ends with. The expression string is kept as
\* the sequence of the parts the f-string joins ("/" is its division sign).
divide(a, b) ==
    IF IsZero(b)
    THEN Return([operation |-> "division",
                 operands |-> <<a, b>>,
                 error |-> "Cannot divide by zero",
                 expression |-> <<a, "/", b, "=", "undefined">>])
    ELSE LET q == TrueDiv(a, b)
         IN  IF q.kind = "raise" THEN q
             ELSE Return([operation |-> "division",
                          operands |-> <<a, b>>,
                          result |-> q.value,
                          expression |-> <<a, "/", b, "=", q.value>>])

\* A call divide(a, b) of the tool.
Divide(a, b) ==
    /\ tool' = Some([name |-> "divide", args |-> <<a, b>>, outcome |-> divide(a, b)])
    /\ UNCHANGED <<pc, urls, session, tasks, order, results, report, raised, now,
                   start_time, clock, calls, argkind>>

(* ------------------- multi-agent: calculate(expression) --------------- *)

\* allowed_chars = set("0123456789+-*/().^ ")
allowed_chars ==
    {"0", "1", "2", "3", "4", "5", "6", "7", "8", "9",
     "+", "-", "*", "/", "(", ")", ".", "^", " "}

\* all(c in allowed_chars for c in expression)
AllAllowed(expression) == \A k \in 1..Len(expression) : expression[k] \in allowed_chars

\* expression.replace("^", "**")
RECURSIVE ReplaceCaret(_)
ReplaceCaret(expression) ==
    IF expression = <<>> THEN <<>>
    ELSE (IF Head(expression) = "^" THEN <<"*", "*">> ELSE <<Head(expression)>>)
             \o ReplaceCaret(Tail(expression))

\* eval(safe_expr), for the expressions written with the characters of
\* ExprChars: Python's tokens, grammar and arithmetic on them. A value is an
\* int or a float, kept as an exact fraction, or the empty tuple "()".
DecDigits == <<"0", "1", "2", "3", "4", "5", "6", "7", "8", "9">>

DigitVal(c) == CHOOSE n \in 0..9 : DecDigits[n + 1] = c

IsDigit(c) == \E n \in 1..10 : DecDigits[n] = c

RECURSIVE RunLen(_)
RunLen(s) == IF Len(s) = 0 \/ ~IsDigit(Head(s)) THEN 0 ELSE 1 + RunLen(Tail(s))

RECURSIVE DecVal(_)
DecVal(run) ==
    IF Len(run) = 0 THEN 0
    ELSE DecVal(SubSeq(run, 1, Len(run) - 1)) * 10 + DigitVal(run[Len(run)])

\* A decimal integer literal: a zero may be written with several zeros, any
\* other number has no leading zero.
NumToken(run) ==
    IF Len(run) > 1 /\ run[1] = "0" /\ \E k \in 1..Len(run) : run[k] # "0"
    THEN [t |-> "bad", v |-> 0]
    ELSE [t |-> "num", v |-> DecVal(run)]

OpToken(o) == [t |-> "op", v |-> o]

\* F applied to the value of v, which is computed once: the assignment of
\* a result to a name.
Strict(v, F(_)) == CHOOSE y \in { F(x) : x \in {v} } : TRUE

\* The tokens of a source text: spaces separate, the longest operator wins.
RECURSIVE Tokenize(_)
Tokenize(source) ==
    Strict(source, LAMBDA s :
        IF Len(s) = 0 THEN <<>>
        ELSE IF Head(s) = " " THEN Tokenize(Tail(s))
        ELSE IF IsDigit(Head(s))
        THEN Strict(RunLen(s), LAMBDA n :
                 <<NumToken(SubSeq(s, 1, n))>> \o Tokenize(SubSeq(s, n + 1, Len(s))))
        ELSE IF Len(s) >= 2 /\ Head(s) \in {"*", "/"} /\ s[2] = Head(s)
        THEN <<OpToken(IF Head(s) = "*" THEN "**" ELSE "//")>> \o Tokenize(SubSeq(s, 3, Len(s)))
        ELSE <<OpToken(Head(s))>> \o Tokenize(Tail(s)))

IsOp(toks, o) == Len(toks) > 0 /\ toks[1].t = "op" /\ toks[1].v = o

\* The syntax trees.
NumNode(n) == [k |-> "num", v |-> n]

TupleNode == [k |-> "tuple"]

NegNode(a) == [k |-> "neg", a |-> a]

BinNode(op, a, b) == [k |-> "bin", op |-> op, a |-> a, b |-> b]

CallNode(f, arg) == [k |-> "call", f |-> f, arg |-> arg]

\* The result of parsing a prefix of the tokens.
NoParse == [ok |-> FALSE]

Parsed(ast, rest) == [ok |-> TRUE, ast |-> ast, rest |-> rest]

RECURSIVE ParseExpr(_)
RECURSIVE ParseExprRest(_, _)
RECURSIVE ParseTerm(_)
RECURSIVE ParseTermRest(_, _)
RECURSIVE ParseFactor(_)
RECURSIVE ParsePower(_)
RECURSIVE ParsePrimary(_)
RECURSIVE ParsePrimaryRest(_, _)
RECURSIVE ParseAtom(_)

\* sum: term ('-' term)*
ParseExpr(toks) ==
    Strict(ParseTerm(toks), LAMBDA l :
        IF ~l.ok THEN NoParse ELSE ParseExprRest(l.ast, l.rest))

ParseExprRest(left, toks) ==
    IF IsOp(toks, "-")
    THEN Strict(ParseTerm(Tail(toks)), LAMBDA r :
             IF ~r.ok THEN NoParse
             ELSE ParseExprRest(BinNode("-", left, r.ast), r.rest))
    ELSE Parsed(left, toks)

\* term: factor (('*' | '/' | '//') factor)*
ParseTerm(toks) ==
    Strict(ParseFactor(toks), LAMBDA l :
        IF ~l.ok THEN NoParse ELSE ParseTermRest(l.ast, l.rest))

ParseTermRest(left, toks) ==
    IF IsOp(toks, "*") \/ IsOp(toks, "/") \/ IsOp(toks, "//")
    THEN Strict(ParseFactor(Tail(toks)), LAMBDA r :
             IF ~r.ok THEN NoParse
             ELSE ParseTermRest(BinNode(toks[1].v, left, r.ast), r.rest))
    ELSE Parsed(left, toks)

\* factor: '-' factor | power
ParseFactor(toks) ==
    IF IsOp(toks, "-")
    THEN Strict(ParseFactor(Tail(toks)), LAMBDA f :
             IF ~f.ok THEN NoParse ELSE Parsed(NegNode(f.ast), f.rest))
    ELSE ParsePower(toks)

\* power: primary ['**' factor]
ParsePower(toks) ==
    Strict(ParsePrimary(toks), LAMBDA b :
        IF ~b.ok THEN NoParse
        ELSE IF IsOp(b.rest, "**")
        THEN Strict(ParseFactor(Tail(b.rest)), LAMBDA f :
                 IF ~f.ok THEN NoParse
                 ELSE Parsed(BinNode("**", b.ast, f.ast), f.rest))
        ELSE b)

\* primary: atom ('(' [['*' | '**'] sum] ')')*
ParsePrimary(toks) ==
    Strict(ParseAtom(toks), LAMBDA a :
        IF ~a.ok THEN NoParse ELSE ParsePrimaryRest(a.ast, a.rest))

ParsePrimaryRest(f, toks) ==
    IF IsOp(toks, "(")
    THEN IF IsOp(Tail(toks), ")")
         THEN ParsePrimaryRest(CallNode(f, None), Tail(Tail(toks)))
         ELSE Strict(ParseExpr(IF IsOp(Tail(toks), "*") \/ IsOp(Tail(toks), "**")
                               THEN Tail(Tail(toks)) ELSE Tail(toks)),
                     LAMBDA arg :
                         IF ~arg.ok THEN NoParse
                         ELSE IF ~IsOp(arg.rest, ")") THEN NoParse
                         ELSE ParsePrimaryRest(CallNode(f, Some(arg.ast)), Tail(arg.rest)))
    ELSE Parsed(f, toks)

\* atom: NUMBER | '(' ')' | '(' sum ')'
ParseAtom(toks) ==
    IF Len(toks) = 0 THEN NoParse
    ELSE IF toks[1].t = "num" THEN Parsed(NumNode(toks[1].v), Tail(toks))
    ELSE IF IsOp(toks, "(")
    THEN IF IsOp(Tail(toks), ")")
         THEN Parsed(TupleNode, Tail(Tail(toks)))
         ELSE Strict(ParseExpr(Tail(toks)), LAMBDA e :
                  IF ~e.ok THEN NoParse
                  ELSE IF ~IsOp(e.rest, ")") THEN NoParse
                  ELSE Parsed(e.ast, Tail(e.rest)))
    ELSE NoParse

\* The source is compiled as one expression: its tree, or SyntaxError.
Compile(s) ==
    Strict(Tokenize(s), LAMBDA toks :
        Strict(ParseExpr(toks), LAMBDA e :
            IF e.ok /\ Len(e.rest) = 0
            THEN Return(e.ast)
            ELSE Raise(Exc("SyntaxError", "invalid syntax"))))

\* The values.
NumVal(q, float) == [t |-> "num", q |-> q, float |-> float]

TupleVal == [t |-> "tuple"]

FracNeg(q) == [n |-> -q.n, d |-> q.d]

FracSub(a, b) == Frac(a.n * b.d - b.n * a.d, a.d * b.d)

FracMul(a, b) == Frac(a.n * b.n, a.d * b.d)

\* a // b of b # 0: the floor of the quotient.
FracFloorDiv(a, b) ==
    LET q == Frac(a.n * b.d, a.d * b.n)
    IN  Frac(q.n \div q.d, 1)

\* a ** k for a whole k >= 0.
RECURSIVE FracPow(_, _)
FracPow(a, k) ==
    IF k = 0 THEN Frac(1, 1)
    ELSE Strict(FracPow(a, k - 1), LAMBDA p : FracMul(a, p))

Unsupported(what) == Raise(Exc("TypeError", what))

\* -a
EvalNeg(a) ==
    IF a.t = "tuple" THEN Unsupported("bad operand type for unary -")
    ELSE Return(NumVal(FracNeg(a.q), a.float))

\* a op b. A tuple can only be repeated, by an int; the empty tuple repeated
\* is the empty tuple. The exponent is a whole number (an int, or a float
\* such as 1.0) in every expression of the lengths drawn here.
EvalBin(op, a, b) ==
    IF a.t = "tuple" \/ b.t = "tuple"
    THEN IF op = "*" /\ a.t # b.t /\ (IF a.t = "num" THEN ~a.float ELSE ~b.float)
         THEN Return(TupleVal)
         ELSE Unsupported("unsupported operand type(s)")
    ELSE CASE op = "-" -> Return(NumVal(FracSub(a.q, b.q), a.float \/ b.float))
           [] op = "*" -> Return(NumVal(FracMul(a.q, b.q), a.float \/ b.float))
           [] op = "/" ->
                IF IsZero(b.q)
                THEN Raise(Exc("ZeroDivisionError", "division by zero"))
                ELSE Return(NumVal(Frac(a.q.n * b.q.d, a.q.d * b.q.n), TRUE))
           [] op = "//" ->
                IF IsZero(b.q)
                THEN Raise(Exc("ZeroDivisionError", "integer division or modulo by zero"))
                ELSE Return(NumVal(FracFloorDiv(a.q, b.q), a.float \/ b.float))
           [] op = "**" /\ b.q.d = 1 ->
                IF b.q.n >= 0
                THEN Return(NumVal(FracPow(a.q, b.q.n), a.float \/ b.float))
                ELSE IF IsZero(a.q)
                THEN Raise(Exc("ZeroDivisionError", "0.0 cannot be raised to a negative power"))
                ELSE Return(NumVal(FracPow(Frac(a.q.d, a.q.n), -b.q.n), TRUE))

\* The value of a tree, or the exception its evaluation raises: operands
\* left to right, then the operation. A call evaluates the callee and the
\* argument and fails, as no value here is callable.
RECURSIVE Evaluate(_)
Evaluate(tree) ==
    Strict(tree, LAMBDA ast :
        CASE ast.k = "num" -> Return(NumVal(Frac(ast.v, 1), FALSE))
          [] ast.k = "tuple" -> Return(TupleVal)
          [] ast.k = "neg" ->
                Strict(Evaluate(ast.a), LAMBDA a :
                    IF a.kind = "raise" THEN a ELSE EvalNeg(a.value))
          [] ast.k = "bin" ->
                Strict(Evaluate(ast.a), LAMBDA a :
                    IF a.kind = "raise" THEN a
                    ELSE Strict(Evaluate(ast.b), LAMBDA b :
                             IF b.kind = "raise" THEN b
                             ELSE EvalBin(ast.op, a.value, b.value)))
          [] ast.k = "call" ->
                Strict(Evaluate(ast.f), LAMBDA f :
                    IF f.kind = "raise" THEN f
                    ELSE IF ast.arg = None THEN Unsupported("object is not callable")
                    ELSE Strict(Evaluate(ast.arg[1]), LAMBDA x :
                             IF x.kind = "raise" THEN x
                             ELSE Unsupported("object is not callable"))))

eval(s) ==
    Strict(Compile(s), LAMBDA c :
        IF c.kind = "raise" THEN c ELSE Evaluate(c.value))

\* The try body of calculate (lines 20-31): how it ends, and whether eval
\* was called.
calculate_body(expression) ==
    IF ~AllAllowed(expression)
    THEN [evaluated |-> FALSE,
          outcome |-> Return([error |-> <<"Invalid characters in expression">>])]
    ELSE Strict(ReplaceCaret(expression), LAMBDA safe_expr :
             Strict(eval(safe_expr), LAMBDA result :
                 IF result.kind = "raise"
                 THEN [evaluated |-> TRUE, outcome |-> result]
                 ELSE [evaluated |-> TRUE,
                       outcome |-> Return([expression |-> expression,
                                           result |-> result.value,
                                           formatted |-> <<expression, " = ", result.value>>])]))

\* Variant: the except clause names ZeroDivisionError only.
calculate_except_zero(expression) ==
    Strict(calculate_body(expression), LAMBDA body :
        IF body.outcome.kind = "raise" /\ IsInstance(body.outcome.value, "ZeroDivisionError")
        THEN [evaluated |-> body.evaluated,
              outcome |-> Return([error |-> <<"Could not evaluate: ", Str(body.outcome.value)>>])]
        ELSE body)

\* calculate(expression): "except Exception as e" turns what the body
\* raises into the error record.
calculate(expression) ==
    Strict(calculate_body(expression), LAMBDA body :
        IF body.outcome.kind = "raise" /\ IsInstance(body.outcome.value, GenericClause)
        THEN [evaluated |-> body.evaluated,
              outcome |-> Return([error |-> <<"Could not evaluate: ", Str(body.outcome.value)>>])]
        ELSE body)

\* A call calculate(expression) of the tool, the first that is made.
Calculate(expression) ==
    /\ tool = None
    /\ tool' = Strict(calculate(expression), LAMBDA ended :
                    Some([name |-> "calculate", args |-> <<expression>>,
                          evaluated |-> ended.evaluated,
                          outcome |-> ended.outcome]))
    /\ UNCHANGED <<pc, urls, session, tasks, order, results, report, raised, now,
                   start_time, clock, calls, argkind>>

(* ---------------- metrics-basics-agent: the Metrics tools -------------- *)

\* Python values the Metrics API may answer with, by their type: None, a
\* list and a dict (a function of its keys).
PyNone == [type |-> "NoneType"]

PyList(xs) == [type |-> "list", items |-> xs]

PyDict(d) == [type |-> "dict", items |-> d]

EmptyDict == [type |-> "dict", items |-> <<>>]

\* bool(v) of an answer: None, [] and {} are false.
Truthy(v) ==
    CASE v.type = "NoneType" -> FALSE
      [] v.type = "list" -> v.items # <<>>
      [] v.type = "dict" -> DOMAIN v.items # {}

\* bool(s) of an optional str argument: None and "" are false.
TruthyStr(s) == s # None /\ s[1] # ""

\* The lists of at most n elements of S.
ListsOf(S, n) == UNION { [1..k -> S] : k \in 0..n }

Hostnames == {"spine-01", "leaf-09"}

Devices ==
    { [hostname |-> "spine-01", layer |-> "spine", status |-> "up"],
      [hostname |-> "leaf-09", layer |-> "leaf", status |-> "down"] }

Interfaces ==
    { [name |-> "Ethernet1", status |-> "up"],
      [name |-> "Ethernet2", status |-> "down"],
      [name |-> "Ethernet3", status |-> "admin-down"] }

\* What a query of the Metrics API may raise.
QueryErrors == { Exc("ConnectionError", <<"u","n","r","e","a","c","h","a","b","l","e">>) }

\* How the Metrics API behaves in one call of a tool: whether Metrics() makes
\* a client or raises, and what the one query on the client answers.
NoClient == [ctor |-> Raise(Exc("RuntimeError", <<"n","o"," ","p","l","a","t","f","o","r","m">>)), query |-> Return(PyNone)]

Client(answer) == [ctor |-> Return("Metrics"), query |-> answer]

\* metrics = Metrics(): the record of what has been called on the client.
NewClient == <<"Metrics">>

\* metrics.<method>(...): the call is recorded and the API answers.
Query(client, method, answer) == [client |-> Append(client, method), result |-> answer]

\* metrics.close()
Close(client) == Append(client, "close")

\* Variant: the client is closed after the try body instead of in a finally
\* clause, so only when the body returned.
CloseOnReturn(body) ==
    IF body.outcome.kind = "raise"
    THEN body
    ELSE [client |-> Close(body.client), outcome |-> body.outcome]

\* try: <body> finally: metrics.close(): the client is closed however the
\* body ended, and the body's return value or exception goes on.
TryFinally(body) == [client |-> Close(body.client), outcome |-> body.outcome]

\* The try body of get_device_inventory (lines 43-57).
get_device_inventory_body(client, layer, region, answer) ==
    LET given == [k \in {"layer", "region"} |-> IF k = "layer" THEN layer ELSE region]
        filters == [k \in {k \in {"layer", "region"} : TruthyStr(given[k])} |-> given[k][1]]
        q == Query(client, "get_devices", answer)
    IN  IF q.result.kind = "raise"
        THEN [client |-> q.client, outcome |-> q.result]
        ELSE LET devices == q.result.value
             IN  IF devices.type # "list"
                 THEN [client |-> q.client,
                       outcome |-> Raise(Exc("TypeError", <<"n","o"," ","l","e","n","(",")">>))]
                 ELSE [client |-> q.client,
                       outcome |-> Return(
                           [devices |-> devices.items,
                            total_count |-> Len(devices.items),
                            filters_applied |->
                                IF DOMAIN filters # {}
                                THEN filters
                                ELSE [note |-> "No filters applied - showing all devices"]])]

get_device_inventory(layer, region, api) ==
    IF api.ctor.kind = "raise"
    THEN [client |-> <<>>, outcome |-> api.ctor]
    ELSE TryFinally(get_device_inventory_body(NewClient, layer, region, api.query))

\* The try body of check_device_status (lines 99-111).
check_device_status_body(client, hostname, answer) ==
    LET q == Query(client, "get_device_status", answer)
    IN  IF q.result.kind = "raise"
        THEN [client |-> q.client, outcome |-> q.result]
        ELSE LET device_status == q.result.value
             IN  IF Truthy(device_status)
                 THEN [client |-> q.client, outcome |-> Return(device_status)]
                 ELSE [client |-> q.client,
                       outcome |-> Return(
                           [hostname |-> hostname,
                            reachable |-> FALSE,
                            status |-> "not_found",
                            error |-> <<"Device '", hostname, "' not found in inventory">>,
                            suggestion |-> "Check hostname spelling or use get_device_inventory() to see all devices"])]

check_device_status(hostname, api) ==
    IF api.ctor.kind = "raise"
    THEN [client |-> <<>>, outcome |-> api.ctor]
    ELSE TryFinally(check_device_status_body(NewClient, hostname, api.query))

\* len([i for i in all_interfaces if i.get("status") == st])
RECURSIVE CountStatus(_, _)
CountStatus(ifaces, st) ==
    IF ifaces = <<>> THEN 0
    ELSE (IF Head(ifaces).status = st THEN 1 ELSE 0) + CountStatus(Tail(ifaces), st)

\* The try body of list_interfaces (lines 154-187).
list_interfaces_body(client, hostname, status, answer) ==
    LET q == Query(client, "get_interfaces", answer)
    IN  IF q.result.kind = "raise"
        THEN [client |-> q.client, outcome |-> q.result]
        ELSE LET all_interfaces == q.result.value
             IN  IF all_interfaces.type = "NoneType"
                 THEN [client |-> q.client,
                       outcome |-> Return(
                           [hostname |-> hostname,
                            error |-> <<"Device '", hostname, "' not found or has no interface data">>,
                            interfaces |-> <<>>,
                            total_count |-> 0])]
                 ELSE LET Keep(iface) == iface.status = status[1]
                          interfaces == IF TruthyStr(status)
                                        THEN SelectSeq(all_interfaces.items, Keep)
                                        ELSE all_interfaces.items
                          up_count == CountStatus(all_interfaces.items, "up")
                          down_count == CountStatus(all_interfaces.items, "down")
                      IN  [client |-> q.client,
                           outcome |-> Return(
                               [hostname |-> hostname,
                                interfaces |-> interfaces,
                                total_count |-> Len(interfaces),
                                filter_applied |-> IF TruthyStr(status) THEN status[1] ELSE "none",
                                summary |-> [total_interfaces |-> Len(all_interfaces.items),
                                             up |-> up_count,
                                             down |-> down_count]])]

list_interfaces(hostname, status, api) ==
    IF api.ctor.kind = "raise"
    THEN [client |-> <<>>, outcome |-> api.ctor]
    ELSE TryFinally(list_interfaces_body(NewClient, hostname, status, api.query))

\* The try body of get_device_details (lines 225-235).
get_device_details_body(client, hostname, answer) ==
    LET q == Query(client, "get_device_details", answer)
    IN  IF q.result.kind = "raise"
        THEN [client |-> q.client, outcome |-> q.result]
        ELSE LET details == q.result.value
             IN  IF Truthy(details)
                 THEN [client |-> q.client, outcome |-> Return(details)]
                 ELSE [client |-> q.client,
                       outcome |-> Return(
                           [error |-> <<"Device '", hostname, "' not found in inventory">>,
                            hostname |-> hostname,
                            suggestion |-> "Use get_device_inventory() to see all available devices"])]

get_device_details(hostname, api) ==
    IF api.ctor.kind = "raise"
    THEN [client |-> <<>>, outcome |-> api.ctor]
    ELSE TryFinally(get_device_details_body(NewClient, hostname, api.query))

\* The record of a call of a Metrics tool that has ended: the tool and its
\* arguments, how the API behaved, what was called on the client, and the
\* return value or the exception of the call.
Called(name, args, api, ended) ==
    [name |-> name, args |-> args, api |-> api,
     client |-> ended.client, outcome |-> ended.outcome]

GetDeviceInventory(layer, region, api) ==
    /\ tool' = Some(Called("get_device_inventory", <<layer, region>>, api,
                           get_device_inventory(layer, region, api)))
    /\ UNCHANGED <<pc, urls, session, tasks, order, results, report, raised, now,
                   start_time, clock, calls, argkind>>

CheckDeviceStatus(hostname, api) ==
    /\ tool' = Some(Called("check_device_status", <<hostname>>, api,
                           check_device_status(hostname, api)))
    /\ UNCHANGED <<pc, urls, session, tasks, order, results, report, raised, now,
                   start_time, clock, calls, argkind>>

ListInterfaces(hostname, status, api) ==
    /\ tool' = Some(Called("list_interfaces", <<hostname, status>>, api,
                           list_interfaces(hostname, status, api)))
    /\ UNCHANGED <<pc, urls, session, tasks, order, results, report, raised, now,
                   start_time, clock, calls, argkind>>

GetDeviceDetails(hostname, api) ==
    /\ tool' = Some(Called("get_device_details", <<hostname>>, api,
                           get_device_details(hostname, api)))
    /\ UNCHANGED <<pc, urls, session, tasks, order, results, report, raised, now,
                   start_time, clock, calls, argkind>>

(* ------------------------- the timeouts' clock ------------------------ *)

\* The tasks whose request is under way.
InFlight == {i \in Indices : tasks[i].pc \in {"get", "text"}}

\* Variant: a request has no total timeout (ClientTimeout(total=None)).
NeverExpired(i) == FALSE

\* The total timeout of task i's request has expired.
Expired(i) == i \in InFlight /\ clock >= tasks[i].deadline[1]

\* When the transport can raise e in task i: the timeout once the deadline
\* is reached, any other failure up to the deadline.
CanRaise(i, e) ==
    /\ i \in InFlight
    /\ IF IsInstance(e, TimeoutClause)
       THEN clock >= tasks[i].deadline[1]
       ELSE clock <= tasks[i].deadline[1]

\* When the remote end can still answer task i: up to the deadline.
CanAnswer(i) == i \in InFlight /\ clock <= tasks[i].deadline[1]

\* The timer of task i's total timeout fires: the request is cancelled and
\* asyncio.TimeoutError is raised where the coroutine is suspended, in
\* session.get or in response.text().
TimeoutFires(i) ==
    /\ Expired(i)
    /\ IF tasks[i].pc = "get"
       THEN GetRaise(i, Exc("TimeoutError", <<>>))
       ELSE TextRaise(i, Exc("TimeoutError", <<>>))

\* A second passes. The event loop is blocked waiting for input: the call
\* is suspended in gather, no task is ready to run, and no request in
\* flight has reached its deadline (its timeout would fire first).
Advance ==
    /\ pc = "gather"
    /\ ~GatherReady(tasks, order)
    /\ \A i \in Indices : ~ENABLED FetchStart(i)
    /\ \A i \in InFlight : clock < tasks[i].deadline[1]
    /\ clock' = clock + 1
    /\ now' = now + 100
    /\ UNCHANGED <<pc, urls, session, tasks, order, results, report, raised,
                   start_time, calls, argkind, tool>>

(* --------------------------- specifications --------------------------- *)

Init ==
    /\ pc = "idle"
    /\ urls = <<>>
    /\ session = [id |-> 0, state |-> "none"]
    /\ tasks = <<>>
    /\ order = <<>>
    /\ results = None
    /\ report = None
    /\ raised = None
    /\ now = 0
    /\ start_time = None
    /\ clock = 0
    /\ calls = 0
    /\ argkind = "none"
    /\ tool = None

\* The answers of the remote ends in a batch of several urls.
BatchStatuses == {200, 500}

BatchBodyLens == {2}

BatchGetErrors(url) ==
    { Exc("TimeoutError", <<>>),
      Exc("ClientConnectorError", <<"r","e","f","u","s","e","d">>) }

BatchTextErrors == { Exc("TimeoutError", <<>>) }

\* The url lists of a batch, up to the renaming of the urls: what a fetch
\* meets does not depend on its url here, so the first url is always the
\* same one; the later ones repeat it or differ from it.
BatchLists == { us \in UrlLists(MaxUrls) : Len(us) = 0 \/ us[1] = <<"a">> }

\* A batch call over up to MaxUrls urls.
Next ==
    \/ \E us \in BatchLists : Call(us)
    \/ \E i \in Indices : FetchStart(i)
    \/ \E i \in Indices, st \in BatchStatuses : GetResponse(i, st)
    \/ \E i \in Indices : \E e \in BatchGetErrors(tasks[i].url) : GetRaise(i, e)
    \/ \E i \in Indices, n \in BatchBodyLens : TextReturn(i, Body(n))
    \/ \E i \in Indices, e \in BatchTextErrors : TextRaise(i, e)
    \/ GatherWake
    \/ ReturnReport

Spec == Init /\ [][Next]_vars

\* A call over at most one url, against every answer of the remote end.
NextOne ==
    \/ \E us \in UrlLists(1) : Call(us)
    \/ \E i \in Indices : FetchStart(i)
    \/ \E i \in Indices, st \in Statuses : GetResponse(i, st)
    \/ \E i \in Indices : \E e \in GetErrors(tasks[i].url) : GetRaise(i, e)
    \/ \E i \in Indices, n \in BodyLens : TextReturn(i, Body(n))
    \/ \E i \in Indices, e \in TextErrors : TextRaise(i, e)
    \/ GatherWake
    \/ ReturnReport

SpecOne == Init /\ [][NextOne]_vars

\* The arguments of a call: the short url lists, None, and a str.
Args ==
    { ListArg(us) : us \in UrlLists(MaxSmallUrls) } \cup { NoneArg, StrArg(<<"a", "b">>) }

\* Up to MaxCalls calls, one after the other, with any argument.
NextCalls ==
    \/ \E a \in Args : CallAgain(a)
    \/ \E i \in Indices : FetchStart(i)
    \/ \E i \in Indices, st \in BatchStatuses : GetResponse(i, st)
    \/ \E i \in Indices : \E e \in BatchGetErrors(tasks[i].url) : GetRaise(i, e)
    \/ \E i \in Indices, n \in BatchBodyLens : TextReturn(i, Body(n))
    \/ \E i \in Indices, e \in BatchTextErrors : TextRaise(i, e)
    \/ GatherWake
    \/ ReturnReport

SpecCalls == Init /\ [][NextCalls]_vars

\* A batch call with the time of the event loop's clock: the timeout of a
\* request fires when its deadline is reached, not before.
NextTimed ==
    \/ \E us \in UrlLists(MaxSmallUrls) : Call(us)
    \/ \E i \in Indices : FetchStart(i)
    \/ \E i \in Indices, st \in BatchStatuses : CanAnswer(i) /\ GetResponse(i, st)
    \/ \E i \in Indices : \E e \in BatchGetErrors(tasks[i].url) : CanRaise(i, e) /\ GetRaise(i, e)
    \/ \E i \in Indices, n \in BatchBodyLens : CanAnswer(i) /\ TextReturn(i, Body(n))
    \/ \E i \in Indices, e \in BatchTextErrors : CanRaise(i, e) /\ TextRaise(i, e)
    \/ GatherWake
    \/ ReturnReport
    \/ Advance

SpecTimed == Init /\ [][NextTimed]_vars

\* The scheduling of the event loop: a task that is ready is run (the
\* coroutines of gather, the call when gather is done), time passes while
\* the loop waits, and a timer that is due fires. Nothing obliges the remote
\* end to answer.
Scheduling ==
    /\ WF_vars(\E i \in Indices : FetchStart(i))
    /\ WF_vars(Advance)
    /\ \A i \in 1..MaxSmallUrls : WF_vars(TimeoutFires(i))
    /\ WF_vars(GatherWake)
    /\ WF_vars(ReturnReport)

SpecFair == Init /\ [][NextTimed]_vars /\ Scheduling

\* Calls of the calculator's divide.
NextTools == \E a \in Nums, b \in Nums : Divide(a, b)

SpecTools == Init /\ [][NextTools]_vars

\* The behaviours of the Metrics API towards a query that answers a list,
\* and towards one that answers a dict.
ListApis(S) ==
    { NoClient }
        \cup { Client(Return(PyList(xs))) : xs \in ListsOf(S, MaxItems) }
        \cup { Client(Return(PyNone)) }
        \cup { Client(Raise(e)) : e \in QueryErrors }

DictApis ==
    { NoClient }
        \cup { Client(Return(PyDict(d))) : d \in Devices }
        \cup { Client(Return(EmptyDict)), Client(Return(PyNone)) }
        \cup { Client(Raise(e)) : e \in QueryErrors }

\* Calls of the four Metrics tools.
NextMetrics ==
    \/ \E layer \in {None, Some("spine"), Some("")}, region \in {None, Some("dc1")} :
          \E api \in ListApis(Devices) : GetDeviceInventory(layer, region, api)
    \/ \E h \in Hostnames, api \in DictApis : CheckDeviceStatus(h, api)
    \/ \E h \in Hostnames, status \in {None, Some("up"), Some("")} :
          \E api \in ListApis(Interfaces) : ListInterfaces(h, status, api)
    \/ \E h \in Hostnames, api \in DictApis : GetDeviceDetails(h, api)

SpecMetrics == Init /\ [][NextMetrics]_vars

\* The characters the expressions are written with: digits, operators,
\* parentheses, the space, and a letter.
ExprChars == {"0", "2", "-", "*", "/", "^", "(", ")", " ", "x"}

\* Calls of calculate with the expressions of at most MaxExpr characters.
NextCalc == \E expression \in ListsOf(ExprChars, MaxExpr) : Calculate(expression)

SpecCalc == Init /\ [][NextCalc]_vars

(* ------------------------------- claims ------------------------------ *)

\* The tasks that have reached a terminal outcome.
Done == {i \in Indices : tasks[i].pc = "done"}

\* The exception classes by which the transport reports that the total
\* timeout of the request was exceeded.
TimeoutClasses == {"TimeoutError", "ServerTimeoutError"}

\* Task i ran into the timeout / got a decoded response / failed otherwise.
TimedOut(i) ==
    /\ tasks[i].answer # None
    /\ tasks[i].answer[1].kind = "raise"
    /\ tasks[i].answer[1].exc.cls \in TimeoutClasses

GotResponse(i) ==
    /\ tasks[i].answer # None
    /\ tasks[i].answer[1].kind = "response"

FailedOtherwise(i) ==
    /\ tasks[i].answer # None
    /\ tasks[i].answer[1].kind = "raise"
    /\ tasks[i].answer[1].exc.cls \notin TimeoutClasses

\* C1. Order preservation: in every returned report, results has the length
\* of urls and results[i].url = urls[i] for every i; results[i] is the
\* outcome of the i-th fetch, whatever the order the fetches finished in.
C1_OrderPreserved ==
    report # None =>
        /\ Len(report[1].results) = Len(urls)
        /\ \A i \in 1..Len(urls) :
              /\ report[1].results[i].url = urls[i]
              /\ report[1].results[i] = tasks[i].result.value

\* A report over three urls, the first and last distinct, whose fetches
\* finished in the order 3, 1, 2.
C1_Witness ==
    /\ report # None
    /\ Len(urls) = 3
    /\ urls[1] # urls[3]
    /\ order = <<3, 1, 2>>

\* C2. Partition completeness: in every returned report,
\* successful + failed = total_urls = len(results), successful is the number
\* of results with success = TRUE and failed the number with success = FALSE.
C2_PartitionComplete ==
    report # None =>
        LET r == report[1]
            yes == {i \in DOMAIN r.results : r.results[i].success}
            no == {i \in DOMAIN r.results : ~r.results[i].success}
        IN  /\ r.successful + r.failed = r.total_urls
            /\ r.total_urls = Len(r.results)
            /\ r.successful = Cardinality(yes)
            /\ r.failed = Cardinality(no)

\* A report that mixes a success with an error status, a success and a failure.
C2_Witness ==
    /\ report # None
    /\ report[1].successful = 2
    /\ report[1].failed = 1
    /\ \E i \in DOMAIN report[1].results : report[1].results[i].status = Some(500)

\* C3. No per-target failure fails the batch: the call never raises; every
\* finished fetch_one ended by returning its dictionary, whatever the
\* transport raised; once all fetches are finished the join can proceed, the
\* joined call can return, and what it returns is a report with one result
\* per url.
C3_BatchNeverFails ==
    /\ pc # "raised"
    /\ raised = None
    /\ \A i \in Done : tasks[i].result.kind = "return"
    /\ (pc = "gather" /\ Done = Indices) => ENABLED GatherWake
    /\ pc = "joined" => ENABLED ReturnReport
    /\ pc = "returned" => (report # None /\ Len(report[1].results) = Len(urls))

\* A returned report of a batch in which one fetch timed out and another
\* failed otherwise.
C3_Witness ==
    /\ pc = "returned"
    /\ report # None
    /\ \E i, j \in Indices : TimedOut(i) /\ FailedOtherwise(j)

\* C4. Isolation of siblings: a fetch that failed or timed out leaves every
\* other fetch alone. A fetch that is not done has been given no outcome by
\* anyone and its next step stays enabled whatever state its siblings are in;
\* a fetch that is done carries the outcome of its own answer: the timeout
\* message with success = FALSE if it timed out, success = TRUE with its own
\* status and body length if it was answered; and the report holds exactly
\* these outcomes.
C4_SiblingsIsolated ==
    /\ \A i \in Indices \ Done :
          /\ tasks[i].answer = None
          /\ tasks[i].result = Pending
          /\ (tasks[i].pc = "scheduled" /\ \A j \in 1..(i - 1) : tasks[j].pc # "scheduled")
                => ENABLED FetchStart(i)
          /\ tasks[i].pc = "get" =>
                /\ ENABLED GetResponse(i, 200)
                /\ ENABLED GetRaise(i, Exc("TimeoutError", <<>>))
          /\ tasks[i].pc = "text" =>
                /\ ENABLED TextReturn(i, Body(2))
                /\ ENABLED TextRaise(i, Exc("TimeoutError", <<>>))
    /\ \A i \in Done :
          /\ tasks[i].answer # None
          /\ tasks[i].result.kind = "return"
          /\ tasks[i].result.value.url = urls[i]
          /\ TimedOut(i) =>
                /\ tasks[i].result.value.success = FALSE
                /\ tasks[i].result.value.error = Some(TimeoutMessage)
          /\ GotResponse(i) =>
                /\ tasks[i].result.value.success = TRUE
                /\ tasks[i].result.value.status = Some(tasks[i].answer[1].status)
                /\ tasks[i].result.value.content_length = Len(tasks[i].answer[1].content)
                /\ tasks[i].result.value.error = None
    /\ report # None =>
          \A i \in Indices : report[1].results[i] = tasks[i].result.value

\* A returned batch of three: the first fetch timed out, and it did so after
\* the other two had been answered, with different statuses.
C4_Witness ==
    /\ pc = "returned"
    /\ Len(urls) = 3
    /\ order = <<2, 3, 1>>
    /\ TimedOut(1)
    /\ GotResponse(2)
    /\ GotResponse(3)
    /\ tasks[2].answer[1].status # tasks[3].answer[1].status
    /\ report[1].results[1].success = FALSE
    /\ report[1].results[2].success = TRUE
    /\ report[1].results[3].success = TRUE

\* C5. Join/barrier: once the await of gather has resumed (and ever after,
\* in particular when the report is returned) every fetch of the batch is
\* done, and the results hold one complete outcome per fetch, no placeholder.
C5_JoinBarrier ==
    /\ (pc \in {"joined", "returned"} \/ results # None \/ report # None) =>
          /\ Done = Indices
          /\ results # None
          /\ Len(results[1]) = Len(urls)
          /\ \A i \in Indices :
                /\ results[1][i] # None
                /\ tasks[i].result.kind = "return"
                /\ results[1][i] = tasks[i].result.value
    /\ report # None => report[1].results = results[1]

\* A returned report of a batch of at least two fetches with a success and
\* a failure among them.
C5_Witness ==
    /\ pc = "returned"
    /\ report # None
    /\ Len(urls) >= 2
    /\ \E i, j \in Indices : GotResponse(i) /\ TimedOut(j)

\* C6. Mutual exclusivity: every outcome has exactly one of preview and
\* error present (not None); preview is present exactly when success is
\* TRUE, error exactly when success is FALSE.
C6_PreviewXorError ==
    \A i \in Done :
        tasks[i].result.kind = "return" =>
            LET o == tasks[i].result.value
            IN  /\ (o.preview # None) # (o.error # None)
                /\ (o.preview # None) <=> (o.success = TRUE)
                /\ (o.error # None) <=> (o.success = FALSE)

\* A successful outcome of an empty body: its preview is the empty string.
C6_Witness ==
    \E i \in Done :
        /\ GotResponse(i)
        /\ tasks[i].answer[1].content = <<>>
        /\ tasks[i].result.value.preview = Some(<<>>)

\* C7. Any response is success: a fetch that got a response (status and
\* decoded body) has success = TRUE, status = the response's status whatever
\* it is, content_length = the length of the whole body, and no error.
C7_AnyResponseIsSuccess ==
    \A i \in Done :
        GotResponse(i) =>
            /\ tasks[i].result.kind = "return"
            /\ tasks[i].result.value.success = TRUE
            /\ tasks[i].result.value.status = Some(tasks[i].answer[1].status)
            /\ tasks[i].result.value.content_length = Len(tasks[i].answer[1].content)
            /\ tasks[i].result.value.error = None

\* A 500 response with a body longer than the preview limit.
C7_Witness ==
    \E i \in Done :
        /\ GotResponse(i)
        /\ tasks[i].answer[1].status = 500
        /\ Len(tasks[i].answer[1].content) = 201
        /\ tasks[i].result.value.content_length = 201

\* C8. Timeout outcome: a fetch that exceeded the timeout, before or after
\* the headers came in, has exactly the outcome {url, status None,
\* success FALSE, content_length 0, preview None,
\* error "Request timed out after 10 seconds"}.
C8_TimeoutOutcome ==
    \A i \in Done :
        TimedOut(i) =>
            /\ tasks[i].result.kind = "return"
            /\ tasks[i].result.value =
                  [url |-> urls[i], status |-> None, success |-> FALSE,
                   content_length |-> 0, preview |-> None,
                   error |-> Some(TimeoutMessage)]

\* A timeout raised as aiohttp's subclass of asyncio.TimeoutError, which
\* both except clauses match.
C8_Witness ==
    \E i \in Done :
        /\ TimedOut(i)
        /\ tasks[i].answer[1].exc.cls = "ServerTimeoutError"
        /\ tasks[i].result.value.error = Some(TimeoutMessage)

\* C9. Other-failure outcome: a fetch that failed for another reason than
\* the timeout has status None, success FALSE, content_length 0, preview
\* None, and an error that is the failure's class name, then ": ", then the
\* failure's message.
C9_OtherFailureOutcome ==
    \A i \in Done :
        FailedOtherwise(i) =>
            /\ tasks[i].result.kind = "return"
            /\ LET o == tasks[i].result.value
                   e == tasks[i].answer[1].exc
                   n == TypeName(e.cls)
               IN  /\ o.url = urls[i]
                   /\ o.status = None
                   /\ o.success = FALSE
                   /\ o.content_length = 0
                   /\ o.preview = None
                   /\ o.error # None
                   /\ Len(o.error[1]) = Len(n) + 2 + Len(e.msg)
                   /\ SubSeq(o.error[1], 1, Len(n)) = n
                   /\ SubSeq(o.error[1], Len(n) + 1, Len(n) + 2) = <<":", " ">>
                   /\ SubSeq(o.error[1], Len(n) + 3, Len(o.error[1])) = e.msg

\* A malformed url: the error names InvalidURL and carries the url.
C9_Witness ==
    \E i \in Done :
        /\ FailedOtherwise(i)
        /\ tasks[i].answer[1].exc = Exc("InvalidURL", urls[i])
        /\ tasks[i].result.value.error = Some(<<"I","n","v","a","l","i","d","U","R","L",":"," ">> \o urls[i])

\* C10. Truncation law: for a response with body b, the preview is the
\* first 200 units of b followed by "..." if len(b) > 200, and b itself if
\* len(b) <= 200.
C10_TruncationLaw ==
    \A i \in Done :
        GotResponse(i) =>
            LET b == tasks[i].answer[1].content
                p == tasks[i].result.value.preview
            IN  /\ p # None
                /\ Len(b) > 200 =>
                      /\ Len(p[1]) = 203
                      /\ \A k \in 1..200 : p[1][k] = b[k]
                      /\ \A k \in 201..203 : p[1][k] = "."
                /\ Len(b) <= 200 => p[1] = b

\* A body of 201 units, cut to 200 units and the marker.
C10_Witness ==
    \E i \in Done :
        /\ GotResponse(i)
        /\ Len(tasks[i].answer[1].content) = 201
        /\ Len(tasks[i].result.value.preview[1]) = 203

\* C11. Empty input: a call with the empty list dispatches no fetch (no task
\* is made, nothing ever completes), never fails, passes the join at once,
\* and its report has results == [], total_urls == 0, successful == 0 and
\* failed == 0.
C11_EmptyInput ==
    (pc # "idle" /\ argkind = "list" /\ urls = <<>>) =>
        /\ tasks = <<>>
        /\ order = <<>>
        /\ pc # "raised" /\ raised = None
        /\ pc = "gather" => GatherReady(tasks, order)
        /\ results # None => results[1] = <<>>
        /\ report # None =>
              /\ report[1].results = <<>>
              /\ report[1].total_urls = 0
              /\ report[1].successful = 0
              /\ report[1].failed = 0

\* The call with the empty list has returned its report.
C11_Witness ==
    /\ pc = "returned"
    /\ urls = <<>>
    /\ report # None
    /\ report[1].results = <<>>
    /\ report[1].total_urls = 0

\* C12. Invalid input fails fast: a call whose argument is not a list ends
\* with an error raised to the caller, no fetch was dispatched and no report
\* is returned.
C12_InvalidInputFailsFast ==
    (pc # "idle" /\ argkind # "list") =>
        /\ tasks = <<>>
        /\ report = None
        /\ pc = "raised"
        /\ raised # None

\* C13. Scoped client discipline: the session is acquired before any fetch
\* exists; every fetch of the call holds the call's session; while a fetch
\* is not done, and while the call is at the join, the session is open; and
\* after the join the session is closed, whether the call returns a report
\* or an error leaves it.
C13_ScopedSession ==
    /\ pc = "idle" => session.state = "none" /\ tasks = <<>>
    /\ tasks # <<>> => session.state # "none"
    /\ \A i \in Indices : tasks[i].session = session.id
    /\ \A i \in Indices \ Done : session.state = "open"
    /\ pc = "gather" => session.state = "open"
    /\ pc \in {"joined", "returned", "raised"} => session.state = "closed"
    /\ session.state = "closed" => Done = Indices

\* An error left the second call (its argument was None) after a first call
\* that went through: the session of the second call is closed.
C13_Witness ==
    /\ calls = 2
    /\ pc = "raised"
    /\ argkind = "NoneType"
    /\ raised # None
    /\ session = [id |-> 2, state |-> "closed"]

\* C14. One fetch and one outcome per target: there are as many fetches as
\* targets, the i-th fetch is for the i-th target, duplicates included; a
\* fetch completes at most once, a completed fetch holds one outcome, and
\* the report holds one outcome per target.
C14_OneFetchPerTarget ==
    (pc # "idle") =>
        /\ Len(tasks) = Len(urls)
        /\ \A i \in Indices : tasks[i].url = urls[i]
        /\ \A k \in 1..Len(order) : \A l \in 1..Len(order) :
              k # l => order[k] # order[l]
        /\ {order[k] : k \in 1..Len(order)} = Done
        /\ \A i \in Indices :
              (i \in Done) <=> (tasks[i].result.kind # "pending")
        /\ report # None => Len(report[1].results) = Len(urls)

\* The same target twice in one list: one occurrence was answered, the
\* other was not.
C14_Witness ==
    /\ report # None
    /\ \E i \in Indices : \E j \in Indices :
          /\ i # j
          /\ urls[i] = urls[j]
          /\ report[1].results[i].success
          /\ ~report[1].results[j].success

\* C15. Concurrent launch: a fetch whose predecessors in the list have been
\* started can start, whatever state they are in; every fetch carries the
\* deadline of a start at call time (10 seconds); the batch never lasts
\* longer than one timeout, and the reported time is below one timeout plus
\* a second of overhead.
C15_ConcurrentLaunch ==
    /\ \A i \in Indices :
          (tasks[i].pc = "scheduled" /\ \A j \in 1..(i - 1) : tasks[j].pc # "scheduled")
              => ENABLED FetchStart(i)
    /\ \A i \in Indices : tasks[i].deadline # None => tasks[i].deadline[1] = 10
    /\ clock <= 10
    /\ report # None => report[1].total_time_seconds < (10 + 1) * 100

\* Two targets, both ran until their timeout, and the batch took 10 seconds.
C15_Witness ==
    /\ pc = "returned"
    /\ Len(urls) = 2
    /\ TimedOut(1) /\ TimedOut(2)
    /\ clock = 10
    /\ report[1].failed = 2

\* The outcome record that belongs to a target and to what the remote end
\* did to the target's own fetch.
Expected(url, a) ==
    IF a.kind = "response"
    THEN [url |-> url,
          status |-> <<a.status>>,
          success |-> TRUE,
          content_length |-> Len(a.content),
          preview |-> <<IF Len(a.content) > 200
                        THEN SubSeq(a.content, 1, 200) \o <<".", ".", ".">>
                        ELSE a.content>>,
          error |-> <<>>]
    ELSE IF a.exc.cls \in TimeoutClasses
    THEN [url |-> url, status |-> <<>>, success |-> FALSE, content_length |-> 0,
          preview |-> <<>>,
          error |-> << <<"R","e","q","u","e","s","t"," ","t","i","m","e","d"," ","o","u","t"," ","a","f","t","e","r"," ","1","0"," ","s","e","c","o","n","d","s">> >>]
    ELSE [url |-> url, status |-> <<>>, success |-> FALSE, content_length |-> 0,
          preview |-> <<>>,
          error |-> << TypeName(a.exc.cls) \o <<":", " ">> \o a.exc.msg >>]

\* The number of the targets of the current call that were answered.
Answered == Cardinality({i \in Indices : GotResponse(i)})

\* C16. Statelessness across calls: in every call, the first or a later one,
\* the session is the call's own (sessions are numbered by the calls), every
\* fetch holds that session, nothing of an earlier call is left when the
\* call is at its join, and the results and the counts are determined by
\* the call's own targets and the answers to its own fetches.
C16_Stateless ==
    /\ session.id = calls
    /\ \A i \in Indices : tasks[i].session = calls
    /\ pc = "gather" => results = None /\ report = None /\ raised = None
    /\ pc = "raised" => results = None /\ report = None /\ tasks = <<>>
    /\ Len(order) <= Len(tasks)
    /\ pc \in {"gather", "joined", "returned"} => Len(tasks) = Len(urls)
    /\ \A i \in Done : tasks[i].result = Return(Expected(urls[i], tasks[i].answer[1]))
    /\ report # None =>
          /\ report[1].results = [i \in 1..Len(urls) |-> Expected(urls[i], tasks[i].answer[1])]
          /\ report[1].total_urls = Len(urls)
          /\ report[1].successful = Answered
          /\ report[1].failed = Len(urls) - Answered

\* A second call has returned: two targets, one answered and one not.
C16_Witness ==
    /\ calls = 2
    /\ pc = "returned"
    /\ Len(urls) = 2
    /\ report[1].successful = 1
    /\ report[1].failed = 1
    /\ session = [id |-> 2, state |-> "closed"]

\* C17. Per-index independence: the outcome at index i is the record that
\* belongs to target i and to the answer to target i's own fetch, as soon as
\* fetch i is done and in the report, whatever the other fetches got and in
\* whatever order the fetches completed. A batch of a responding, a refused
\* and a timing-out target yields success, failure, failure in that order
\* with successful == 1, failed == 2 and total_urls == 3.
C17_PerIndexIndependence ==
    /\ \A i \in Done :
          /\ tasks[i].answer # None
          /\ tasks[i].result.kind = "return"
          /\ tasks[i].result.value = Expected(urls[i], tasks[i].answer[1])
    /\ report # None =>
          \A i \in 1..Len(urls) :
              report[1].results[i] = Expected(urls[i], tasks[i].answer[1])
    /\ (/\ report # None
        /\ Len(urls) = 3
        /\ GotResponse(1)
        /\ FailedOtherwise(2)
        /\ TimedOut(3)) =>
          /\ report[1].results[1].success
          /\ ~report[1].results[2].success
          /\ ~report[1].results[3].success
          /\ report[1].successful = 1
          /\ report[1].failed = 2
          /\ report[1].total_urls = 3

\* The batch of a responding, a refused and a timing-out target, whose
\* fetches completed in the reverse order.
C17_Witness ==
    /\ report # None
    /\ Len(urls) = 3
    /\ GotResponse(1)
    /\ FailedOtherwise(2)
    /\ tasks[2].answer[1].exc.cls = "ClientConnectorError"
    /\ TimedOut(3)
    /\ order = <<3, 2, 1>>
    /\ report[1].successful = 1

\* C18. Serialized report shape: every report has exactly the keys results,
\* total_urls, successful, failed, total_time_seconds, and every result
\* item, of a done fetch and in the report, has exactly the keys url,
\* status, success, content_length, preview, error.
C18_ReportShape ==
    /\ \A i \in Done :
          /\ tasks[i].result.kind = "return"
          /\ DOMAIN tasks[i].result.value =
                {"url", "status", "success", "content_length", "preview", "error"}
    /\ report # None =>
          /\ DOMAIN report[1] =
                {"results", "total_urls", "successful", "failed", "total_time_seconds"}
          /\ \A i \in 1..Len(report[1].results) :
                DOMAIN report[1].results[i] =
                    {"url", "status", "success", "content_length", "preview", "error"}

\* The report of a fetch that timed out.
C18_Witness ==
    /\ report # None
    /\ Len(urls) = 1
    /\ TimedOut(1)
    /\ report[1].results[1].error # None

\* C19. divide(a, b) handles division by zero as data: the call never
\* raises; when b == 0 the record has operation "division", error "Cannot
\* divide by zero" and no result; when b != 0 the record has no error and
\* its result is a / b (result * b == a).
C19_DivideByZeroIsData ==
    (tool # None /\ tool[1].name = "divide") =>
        LET a == tool[1].args[1]
            b == tool[1].args[2]
            o == tool[1].outcome
        IN  /\ o.kind = "return"
            /\ b.n = 0 =>
                  /\ o.value.operation = "division"
                  /\ o.value.error = "Cannot divide by zero"
                  /\ "result" \notin DOMAIN o.value
            /\ b.n # 0 =>
                  /\ "error" \notin DOMAIN o.value
                  /\ "result" \in DOMAIN o.value
                  /\ o.value.result.d > 0
                  /\ o.value.result.n * b.n * a.d = a.n * o.value.result.d * b.d

\* A division of a number that is not zero by zero.
C19_Witness ==
    /\ tool # None
    /\ tool[1].args[1].n # 0
    /\ tool[1].args[2].n = 0
    /\ tool[1].outcome.kind = "return"
    /\ "error" \in DOMAIN tool[1].outcome.value

\* C20. Elapsed-time measurement spans the whole batch: the start timestamp
\* exists and lies before every step of a fetch; a report exists only when
\* every fetch is done, its time is not negative, it is the time from the
\* start timestamp to the step that returns, and it covers the steps of all
\* the fetches.
C20_ElapsedSpansBatch ==
    /\ pc # "idle" => start_time # None /\ start_time[1] < now
    /\ \A i \in Indices :
          tasks[i].pc # "scheduled" => start_time[1] + 2 <= now
    /\ report # None =>
          /\ Done = Indices
          /\ report[1].total_time_seconds >= 0
          /\ report[1].total_time_seconds = (now - 1) - start_time[1]
          /\ report[1].total_time_seconds >= 2 * Len(urls) + 2

\* A report of three fetches of which two were answered (three steps each).
C20_Witness ==
    /\ report # None
    /\ Len(urls) = 3
    /\ report[1].successful = 2
    /\ report[1].total_time_seconds >= 10

\* C21. Termination: a fetch that is done holds one outcome, a success or a
\* failure, and stays done with that outcome in every later step; and under
\* the scheduling of the event loop, with the timeout firing for a fetch
\* that did not resolve otherwise, a call that is at its join eventually has
\* every fetch done and returns its report.
C21_Termination ==
    /\ [](\A i \in Done :
            /\ tasks[i].result.kind = "return"
            /\ tasks[i].result.value.success \in BOOLEAN)
    /\ [][\A i \in Done :
            /\ i \in DOMAIN tasks'
            /\ tasks'[i].pc = "done"
            /\ tasks'[i].result = tasks[i].result]_vars
    /\ (pc = "gather") ~> (Done = Indices)
    /\ (pc = "gather") ~> (pc = "returned" /\ report # None)

\* Two fetches the remote end never finished: the first got no response,
\* the second got its headers and no body, and both ended by the timeout
\* after 10 seconds; the call returned.
C21_Witness ==
    /\ pc = "returned"
    /\ Len(urls) = 2
    /\ clock = 10
    /\ TimedOut(1) /\ tasks[1].answer[1].stage = "get"
    /\ TimedOut(2) /\ tasks[2].answer[1].stage = "text"

\* An outcome record is well formed: its status is present exactly when it
\* is a success, and a failure has content_length 0.
WellFormed(o) ==
    /\ (o.status # None) <=> o.success
    /\ ~o.success => o.content_length = 0

\* C22. Outcome well-formedness: the outcome of every done fetch and every
\* outcome in a report is well formed; a fetch whose response headers had
\* arrived and whose body was not read or decoded is a failure with no
\* status, content_length 0 and no preview.
C22_WellFormedOutcome ==
    /\ \A i \in Done :
          /\ WellFormed(tasks[i].result.value)
          /\ (tasks[i].answer[1].kind = "raise" /\ tasks[i].answer[1].stage = "text") =>
                /\ ~tasks[i].result.value.success
                /\ tasks[i].result.value.status = None
                /\ tasks[i].result.value.content_length = 0
                /\ tasks[i].result.value.preview = None
    /\ report # None =>
          \A i \in 1..Len(report[1].results) : WellFormed(report[1].results[i])

\* The headers of a response had arrived and the timeout ended the reading
\* of its body; the report is returned.
C22_Witness ==
    /\ report # None
    /\ Len(urls) = 1
    /\ TimedOut(1)
    /\ tasks[1].answer[1].stage = "text"
    /\ report[1].results[1].status = None

\* The four Metrics tools and the query each of them makes.
MetricsTools ==
    [get_device_inventory |-> "get_devices",
     check_device_status |-> "get_device_status",
     list_interfaces |-> "get_interfaces",
     get_device_details |-> "get_device_details"]

\* C23. Metrics client release: in each of the four Metrics tools, when the
\* call has ended, the client it created has seen its creation, the one
\* query and one close, in that order, and nothing else, whether the call
\* returned its result, returned the not-found record, or ended with the
\* exception of the query, which the caller gets unchanged; a call that got
\* no client closes nothing.
C23_MetricsClientReleased ==
    (tool # None /\ tool[1].name \in DOMAIN MetricsTools) =>
        LET call == tool[1]
            created == call.api.ctor.kind = "return"
            query == MetricsTools[call.name]
        IN  /\ created => call.client = <<"Metrics", query, "close">>
            /\ ~created => call.client = <<>> /\ call.outcome = call.api.ctor
            /\ (created /\ call.api.query.kind = "raise") =>
                  call.outcome = call.api.query
            /\ (/\ created
                /\ call.api.query.kind = "return"
                /\ call.api.query.value.type = "NoneType"
                /\ call.name # "get_device_inventory") =>
                  /\ call.outcome.kind = "return"
                  /\ "error" \in DOMAIN call.outcome.value
            /\ (/\ created
                /\ call.api.query.kind = "return"
                /\ Truthy(call.api.query.value)) =>
                  call.outcome.kind = "return"

\* The query of list_interfaces raised: the client is closed and the caller
\* gets the exception.
C23_Witness ==
    /\ tool # None
    /\ tool[1].name = "list_interfaces"
    /\ tool[1].api.query.kind = "raise"
    /\ tool[1].outcome.kind = "raise"
    /\ tool[1].client = <<"Metrics", "get_interfaces", "close">>

\* C24. calculate only evaluates whitelisted input: the call never raises;
\* if the expression has a character outside the digits, '+', '-', '*',
\* '/', '(', ')', '.', '^' and the space, it returns the record with the
\* one key error, "Invalid characters in expression", and nothing was
\* evaluated; for a whitelisted expression, a failure of the evaluation is
\* returned as a record with the one key error, and a value as the record
\* with expression, result and formatted.
C24_CalculateWhitelist ==
    (tool # None /\ tool[1].name = "calculate") =>
        LET expression == tool[1].args[1]
            o == tool[1].outcome
            whitelisted ==
                \A k \in 1..Len(expression) :
                    expression[k] \in {"0", "1", "2", "3", "4", "5", "6", "7", "8", "9",
                                       "+", "-", "*", "/", "(", ")", ".", "^", " "}
            evaluation == eval(ReplaceCaret(expression))
        IN  /\ o.kind = "return"
            /\ ~whitelisted =>
                  /\ ~tool[1].evaluated
                  /\ DOMAIN o.value = {"error"}
                  /\ o.value.error = <<"Invalid characters in expression">>
            /\ (whitelisted /\ evaluation.kind = "raise") =>
                  /\ DOMAIN o.value = {"error"}
                  /\ Len(o.value.error) = 2
                  /\ o.value.error[1] = "Could not evaluate: "
            /\ (whitelisted /\ evaluation.kind = "return") =>
                  /\ DOMAIN o.value = {"expression", "result", "formatted"}
                  /\ o.value.result = evaluation.value

\* "2/0": the division by zero is returned as an error record.
C24_Witness ==
    /\ tool # None
    /\ tool[1].name = "calculate"
    /\ tool[1].args[1] = <<"2", "/", "0">>
    /\ tool[1].evaluated
    /\ tool[1].outcome = Return([error |-> <<"Could not evaluate: ", "division by zero">>])

====
